---- MODULE Spec2Model ----
(***************************************************************************)
(* The network controller of simple-cloud: BridgeNetwork                   *)
(* (src/simplecloud/network.py).  The controller keeps a sorted pool of    *)
(* free host addresses, a reservation table and a container -> address     *)
(* binding map, and drives the container engine (docker) to connect and    *)
(* disconnect containers.                                                  *)
(*                                                                         *)
(* Addresses are numbered by their offset from the subnet's network        *)
(* address: 0 is the network address, SubnetSize - 1 the broadcast         *)
(* address, the addresses between them are the hosts.                      *)
(***************************************************************************)
EXTENDS Integers, FiniteSets, Sequences, TLC

\* Number of addresses of the subnet handed to BridgeNetwork.__init__.
SubnetSize == 5

\* Number of container ids the orchestrator and the engine know.
NumContainers == 2

\* Longest sequence of calls considered.
MaxCalls == 3

VARIABLES
    address_pool,   \* self.address_pool: SortedSet of IPv4Address (their numbers)
    containers,     \* self.containers: dict container id -> bound value
    reservations,   \* self.reservations: dict key -> address text (or None)
    attached,       \* the engine's own membership of the network: id -> address
    gateway,        \* the address the engine's bridge itself occupies
    last,           \* the last call made on the controller and how it ended
    calls,          \* the number of calls made so far
    network,        \* self.network: the handle and the attrs it last loaded
    engine_network, \* what the engine has under the controller's network name
    events,         \* docker_client.events(): the events not yet consumed
    listener,       \* where listen() stands
    frames,         \* the call each execution context is in the middle of
    services,       \* MyCloud.services: dict name -> the service's fields
    used_ports      \* MyCloud.used_ports: the set of ports taken

vars == <<address_pool, containers, reservations, attached, gateway, last, calls,
          network, engine_network, events, listener, frames, services,
          used_ports>>

----------------------------------------------------------------------------
(* Python values.  A value is None, a text or an IPv4Address object.  An    *)
(* address text and an IPv4Address carry the address number; the text that *)
(* str(None) yields carries no address.                                    *)

NoneV == [t |-> "None", a |-> 0]

StrV(a) == [t |-> "str", a |-> a]

IpV(a) == [t |-> "IPv4Address", a |-> a]

NoneText == [t |-> "str", a |-> -1]

\* The empty text ''.
EmptyText == [t |-> "str", a |-> -2]

\* Python truthiness of the values above: None and the empty text are falsy.
Truthy(v) == v # NoneV /\ v # EmptyText

\* str(x): the dotted text of an address, 'None' for None.
str(v) == IF v.t = "None" THEN NoneText ELSE StrV(v.a)

\* ipaddress.ip_address(x) for an address text or an IPv4Address.
ip_address(v) == IpV(v.a)

\* dict.get(key): the stored value, None when the key is absent.
DictGet(d, k) == IF k \in DOMAIN d THEN d[k] ELSE NoneV

\* dict[key] = value
DictSet(d, k, v) == [x \in DOMAIN d \cup {k} |-> IF x = k THEN v ELSE d[x]]

\* dict.pop(key, None): the dict without the key.
DictPop(d, k) == [x \in DOMAIN d \ {k} |-> d[x]]

----------------------------------------------------------------------------
(* The subnet and the inputs.                                              *)

\* ipaddress.ip_network(subnet).hosts(): network and broadcast excluded.
Hosts == 1 .. (SubnetSize - 2)

\* An address that is no host of the subnet.
Outside == SubnetSize

Cids == 1 .. NumContainers

\* The reservation key arguments: no key (None), the caller's own key and
\* the key under which the controller stores the default gateway.
NoKey == "None"

ReservationKeys == {NoKey, "proxy", "_"}

\* The addr arguments of add_container: None or an address text.
AddrArgs == {NoneV} \cup {StrV(a) : a \in Hosts \cup {Outside}}

\* The reserved_ips arguments of the constructor: no reservation, or the
\* proxy's address under the key "proxy".
EmptyDict == [x \in {} |-> NoneV]

\* The address the orchestrator reserves for its proxy: the last host.
ProxyAddress == SubnetSize - 2

ReservedChoices == {EmptyDict, [k \in {"proxy"} |-> StrV(ProxyAddress)]}

----------------------------------------------------------------------------
(* The address pool: sortedcontainers.SortedSet, ordered by address value. *)

\* address_pool[-1]: the other end of the sorted set.
SortedSetLast(pool) == CHOOSE a \in pool : \A b \in pool : a >= b

\* address_pool[0]
SortedSetFirst(pool) == CHOOSE a \in pool : \A b \in pool : a <= b

\* _get_next_address: the value returned.
NextAddressValue(pool) == IF pool # {} THEN StrV(SortedSetFirst(pool)) ELSE NoneV

\* _get_next_address: the pool it leaves.
NextAddressPool(pool) == IF pool # {} THEN pool \ {SortedSetFirst(pool)} ELSE pool

\* _remove_ip: the pool it leaves (a KeyError is swallowed).
RemoveIpPool(pool, ip) == pool \ {ip_address(ip).a}

\* _add_ip: the pool it leaves.
AddIpPool(pool, ip) == pool \cup {ip_address(ip).a}

----------------------------------------------------------------------------
(* The container engine, as the controller's calls see it.  The engine     *)
(* keeps its own membership of the network.  A connect is accepted only    *)
(* for a container that is not yet a member, at a host address of the      *)
(* subnet that neither the bridge nor another member occupies; any call    *)
(* may also fail though acceptable (docker.errors.APIError).               *)

AddressInUse(a) == a = gateway \/ \E c \in DOMAIN attached : attached[c] = a

\* An engine that attaches a container at any address it is asked for.
ConnectAcceptedAnywhere(cid, text) ==
    /\ ~AddressInUse(text.a)
    /\ cid \notin DOMAIN attached

ConnectAccepted(cid, text) ==
    /\ engine_network # "absent"
    /\ text.a \in Hosts
    /\ ~AddressInUse(text.a)
    /\ cid \notin DOMAIN attached

\* docker_api_client.connect_container_to_network: how the call can end.
ConnectOutcomes(cid, text) ==
    IF ConnectAccepted(cid, text) THEN {"ok", "APIError"} ELSE {"APIError"}

\* docker_api_client.disconnect_container_from_network: how the call can end.
DisconnectOutcomes(cid) ==
    IF cid \in DOMAIN attached THEN {"ok", "APIError"} ELSE {"APIError"}

----------------------------------------------------------------------------
(* The engine's event stream.  An event carries a Type, an Action, the id  *)
(* of the network it is about (Actor.ID) and a container id                *)
(* (Actor.Attributes.container); a field may be missing.  The engine       *)
(* reports every change of a network's membership to the open streams.     *)

Missing == "missing"

\* self.network.id, and the id of some other network of the engine.
OwnNetwork == "own"

OtherNetwork == "other"

Event(type, action, actor, cid) ==
    [Type |-> type, Action |-> action, Actor |-> actor, container |-> cid]

\* The stream after a membership change of the controller's network: the
\* event is delivered when listen() has the stream open.
Emit(action, cid, happened) ==
    IF happened /\ listener = "listening"
    THEN Append(events, Event("network", action, OwnNetwork, cid))
    ELSE events

\* self.network once attach_to_existing_network or create_network has set
\* it: the handle holds the membership it last loaded from the engine.
Handle(membership) == [t |-> "Network", Containers |-> membership]

----------------------------------------------------------------------------
(* Construction: BridgeNetwork.__init__.                                   *)

\* The pool after _remove_ip of every reserved address.
RemoveReserved(pool, reserved_ips) ==
    pool \ {ip_address(reserved_ips[k]).a : k \in DOMAIN reserved_ips}

\* create_network: the reservations once the default gateway is reserved.
CreateReservations(reserved_ips) ==
    DictSet(reserved_ips, "_", NextAddressValue(RemoveReserved(Hosts, reserved_ips)))

\* A create_network that reserves no address for the default gateway.
CreatePoolNoGateway(reserved_ips) == RemoveReserved(Hosts, reserved_ips)

\* create_network: the pool it leaves.
CreatePool(reserved_ips) == NextAddressPool(RemoveReserved(Hosts, reserved_ips))

\* attach_to_existing_network, no container attached: the reservations.
AttachReservations(reserved_ips, gatewayReported) ==
    IF gatewayReported THEN reserved_ips
    ELSE DictSet(reserved_ips, "_", NextAddressValue(Hosts))

\* attach_to_existing_network, no container attached: the pool it leaves.
AttachPool(gatewayReported, network_gateway) ==
    IF gatewayReported THEN RemoveIpPool(Hosts, network_gateway)
    ELSE NextAddressPool(Hosts)

\* The engine's bridge takes the first host address of the subnet.
EngineGateway == SortedSetFirst(Hosts)

\* The contexts that call add_container and remove_container.
Callers == {"caller", "caller2"}

\* The execution contexts: the callers, and the one that runs listen().
Contexts == Callers \cup {"listener"}

\* What a context is in the middle of: the operation, the statement it
\* stands before, the container, the addr and reservation arguments and
\* the local ipaddr.
Frame(op, pc, cid, addr, reservation, ipaddr) ==
    [op |-> op, pc |-> pc, cid |-> cid, addr |-> addr,
     reservation |-> reservation, ipaddr |-> ipaddr]

IdleFrame == Frame("none", "idle", 0, NoneV, "None", NoneV)

NoFrames == [t \in Contexts |-> IdleFrame]

\* The record of a call: the operation and its container, the branch that
\* resolved the address, the local ipaddr, the text sent to the engine, how
\* the engine call ended ("none": no engine call), the exception raised to
\* the caller ("None": none), the value returned, and whether the call
\* repeats the operation and container of the call before it.
Call(op, cid, branch, ipaddr, sent, engine, raised, again) ==
    [op |-> op, cid |-> cid, branch |-> branch, ipaddr |-> ipaddr,
     sent |-> sent, engine |-> engine, raised |-> raised, returned |-> NoneV,
     again |-> again]

Repeats(op, cid) == last.op = op /\ last.cid = cid

InitCreate ==
    \E reserved_ips \in ReservedChoices :
        /\ address_pool = CreatePool(reserved_ips)
        /\ reservations = CreateReservations(reserved_ips)
        /\ engine_network = "no_gateway_reported"

InitAttach ==
    \E reserved_ips \in ReservedChoices, gatewayReported \in BOOLEAN :
        /\ address_pool = AttachPool(gatewayReported, StrV(EngineGateway))
        /\ reservations = AttachReservations(reserved_ips, gatewayReported)
        /\ engine_network = IF gatewayReported THEN "gateway_reported"
                            ELSE "no_gateway_reported"

\* Nothing is bound or attached yet, no call has been made and listen()
\* has not been called.
InitRest ==
    /\ containers = EmptyDict
    /\ attached = EmptyDict
    /\ gateway = EngineGateway
    /\ last = Call("init", 0, "none", NoneV, NoneV, "none", "None", FALSE)
    /\ calls = 0
    /\ network = Handle(EmptyDict)
    /\ events = <<>>
    /\ listener = "idle"
    /\ frames = NoFrames
    /\ services = EmptyDict
    /\ used_ports = {}

Init == (InitCreate \/ InitAttach) /\ InitRest

\* One more call is made, while the run may still make one.
CountCall == calls < MaxCalls /\ calls' = calls + 1

----------------------------------------------------------------------------
(* add_container(container, addr, reservation)                             *)

\* The branch of lines 130-135 that resolves the address.
ResolvedBranch(addr, reservation) ==
    LET reserved_ip == DictGet(reservations, reservation)
    IN  IF Truthy(reserved_ip) THEN "reserved"
        ELSE IF Truthy(addr) THEN "explicit"
        ELSE "next"

\* A resolution that prefers the explicit address to the reservation.
ResolvedAddressExplicitFirst(addr, reservation) ==
    LET reserved_ip == DictGet(reservations, reservation)
    IN  IF Truthy(addr) THEN ip_address(addr)
        ELSE IF Truthy(reserved_ip) THEN ip_address(reserved_ip)
        ELSE NextAddressValue(address_pool)

\* The address add_container resolves (lines 128-135).
ResolvedAddress(addr, reservation) ==
    LET reserved_ip == DictGet(reservations, reservation)
    IN  IF Truthy(reserved_ip) THEN ip_address(reserved_ip)
        ELSE IF Truthy(addr) THEN ip_address(addr)
        ELSE NextAddressValue(address_pool)

\* The pool once the address is resolved, before the engine is called.
ResolvedPool(addr, reservation) ==
    LET reserved_ip == DictGet(reservations, reservation)
    IN  IF Truthy(reserved_ip) THEN address_pool
        ELSE IF Truthy(addr) THEN RemoveIpPool(address_pool, addr)
        ELSE NextAddressPool(address_pool)

\* The exception add_container raises: the engine call is not guarded.
ConnectRaised(outcome) == IF outcome = "ok" THEN "None" ELSE outcome

\* The binding map once the engine call has ended (line 144 runs on success).
CommitBinding(cid, ipaddr, outcome) ==
    IF ConnectRaised(outcome) = "None" THEN DictSet(containers, cid, ipaddr)
    ELSE containers

AddContainer(cid, addr, reservation) ==
    LET ipaddr == ResolvedAddress(addr, reservation)
        sent   == str(ipaddr)
    IN  \E outcome \in ConnectOutcomes(cid, sent) :
            /\ CountCall
            /\ address_pool' = ResolvedPool(addr, reservation)
            /\ containers' = CommitBinding(cid, ipaddr, outcome)
            /\ attached' = IF outcome = "ok" THEN DictSet(attached, cid, sent.a)
                           ELSE attached
            /\ last' = Call("add_container", cid,
                            ResolvedBranch(addr, reservation), ipaddr, sent,
                            outcome, ConnectRaised(outcome),
                            Repeats("add_container", cid))
            /\ events' = Emit("connect", cid, outcome = "ok")
            /\ UNCHANGED <<frames, reservations, services, used_ports, gateway, network, engine_network,
                           listener>>

----------------------------------------------------------------------------
(* remove_container(cid)                                                   *)

\* The disconnect call left unguarded: its APIError reaches the caller.
DisconnectPropagates(outcome) == IF outcome = "ok" THEN "None" ELSE outcome

\* Lines 149-154: an APIError of the disconnect call is swallowed.
DisconnectRaised(outcome) == "None"

\* containers.pop(cid) with no default: a KeyError for an absent key.
PopNoDefault(cid) == IF cid \in DOMAIN containers THEN "None" ELSE "KeyError"

\* Line 156: containers.pop(cid, None) raises nothing for an absent key.
PopRaised(cid) == "None"

\* The exception remove_container raises.
RemoveRaised(cid, outcome) ==
    IF DisconnectRaised(outcome) # "None" THEN DisconnectRaised(outcome)
    ELSE PopRaised(cid)

\* A release that drops the binding without giving its address back.
ReleasedPoolWithoutReturn(cid) == address_pool

\* The pool remove_container leaves (lines 156-158).
ReleasedPool(cid) ==
    LET ipaddr == DictGet(containers, cid)
    IN  IF Truthy(ipaddr) THEN AddIpPool(address_pool, ipaddr) ELSE address_pool

RemoveContainer(cid) ==
    \E outcome \in DisconnectOutcomes(cid) :
        LET raised == RemoveRaised(cid, outcome)
        IN  /\ CountCall
            /\ attached' = IF outcome = "ok" THEN DictPop(attached, cid)
                           ELSE attached
            /\ address_pool' = IF raised = "None" THEN ReleasedPool(cid)
                               ELSE address_pool
            /\ containers' = IF raised = "None" THEN DictPop(containers, cid)
                             ELSE containers
            /\ last' = Call("remove_container", cid, "none",
                            DictGet(containers, cid), NoneV, outcome, raised,
                            Repeats("remove_container", cid))
            /\ events' = Emit("disconnect", cid, outcome = "ok")
            /\ UNCHANGED <<frames, reservations, services, used_ports, gateway, network, engine_network,
                           listener>>

----------------------------------------------------------------------------
(* Membership changes made on the engine by others (a container that       *)
(* dies, external tooling).  The controller's state does not change until  *)
(* it is told.                                                             *)

ExternalConnect(cid, a) ==
    /\ CountCall
    /\ ConnectAccepted(cid, StrV(a))
    /\ attached' = DictSet(attached, cid, a)
    /\ last' = Call("external_connect", cid, "none", NoneV, NoneV, "ok",
                    "None", FALSE)
    /\ events' = Emit("connect", cid, TRUE)
    /\ UNCHANGED <<frames, address_pool, containers, reservations, services, used_ports, gateway, network,
                   engine_network, listener>>

ExternalDisconnect(cid) ==
    /\ CountCall
    /\ cid \in DOMAIN attached
    /\ attached' = DictPop(attached, cid)
    /\ last' = Call("external_disconnect", cid, "none", NoneV, NoneV, "ok",
                    "None", FALSE)
    /\ events' = Emit("disconnect", cid, TRUE)
    /\ UNCHANGED <<frames, address_pool, containers, reservations, services, used_ports, gateway, network,
                   engine_network, listener>>

----------------------------------------------------------------------------
(* listen(): the loop over the engine's event stream, and the two handlers *)
(* it dispatches to.  A handler runs to its end before the next event is   *)
(* taken.  An exception that leaves a handler leaves listen() too: the     *)
(* loop has no try.                                                        *)

\* A listen() that opens the stream with the handle as it was.
StaleHandle == network

\* Line 186: self.network.reload() loads the engine's membership.
ReloadedHandle == Handle(attached)

\* self.network.reload() raises when the engine no longer has the network.
ReloadRaised == IF engine_network = "absent" THEN "NotFound" ELSE "None"

\* Lines 184-188: listen() reloads the handle and opens the event stream.
Listen ==
    /\ CountCall
    /\ listener = "idle"
    /\ listener' = IF ReloadRaised = "None" THEN "listening" ELSE "raised"
    /\ events' = <<>>
    /\ network' = IF ReloadRaised = "None" THEN ReloadedHandle ELSE network
    /\ last' = Call("listen", 0, "none", NoneV, NoneV, "none", ReloadRaised,
                    FALSE)
    /\ UNCHANGED <<frames, address_pool, containers, reservations, services, used_ports, attached, gateway,
                   engine_network>>

\* Line 190: self._handlers.get((event['Type'], event['Action'])), with the
\* KeyError of an event that lacks one of the two fields.
Dispatch(event) ==
    IF event.Type = Missing \/ event.Action = Missing THEN "KeyError"
    ELSE IF event.Type = "network" /\ event.Action = "connect"
         THEN "handler_network_connect"
    ELSE IF event.Type = "network" /\ event.Action = "disconnect"
         THEN "handler_network_disconnect"
    ELSE "none"

\* The loop takes the next event of the stream.
Taken(event) ==
    /\ listener = "listening"
    /\ events # <<>>
    /\ event = Head(events)

\* The loop once the handling of an event has ended: an exception ends
\* listen() and closes the stream.
LoopAfter(raised) ==
    /\ listener' = IF raised = "None" THEN "listening" ELSE "raised"
    /\ calls' = calls

\* The stream once the event is consumed and the engine has reported what
\* the handler did to the membership.
StreamAfter(raised, action, cid, happened) ==
    IF raised # "None" THEN <<>>
    ELSE IF happened
         THEN Append(Tail(events), Event("network", action, OwnNetwork, cid))
    ELSE Tail(events)

\* Lines 190-192 for an event that has no handler, or lacks Type or Action.
ListenNoHandler(event) ==
    LET raised == IF Dispatch(event) = "KeyError" THEN "KeyError" ELSE "None"
    IN  /\ Taken(event)
        /\ Dispatch(event) \in {"none", "KeyError"}
        /\ LoopAfter(raised)
        /\ events' = StreamAfter(raised, "none", event.container, FALSE)
        /\ last' = Call("event", event.container, "no_handler", NoneV, NoneV,
                        "none", raised, FALSE)
        /\ UNCHANGED <<frames, address_pool, containers, reservations, services, used_ports, attached,
                       gateway, network, engine_network>>

\* A handler that takes every event to be about its own network.
ActorUnchecked(event) ==
    IF event.Actor = Missing THEN "KeyError" ELSE "own"

\* Lines 161 and 175: event['Actor']['ID'] == self.network.id, with the
\* KeyError of an event that has no Actor.
ActorCheck(event) ==
    IF event.Actor = Missing THEN "KeyError"
    ELSE IF event.Actor = OwnNetwork THEN "own"
    ELSE "other_network"

\* A handler that ends at its first tests: nothing is called or changed.
HandlerEnds(event, op, branch, raised) ==
    /\ LoopAfter(raised)
    /\ events' = StreamAfter(raised, "none", event.container, FALSE)
    /\ last' = Call(op, event.container, branch, NoneV, NoneV, "none", raised,
                    FALSE)
    /\ UNCHANGED <<frames, address_pool, containers, reservations, services, used_ports, attached, gateway,
                   network, engine_network>>

\* Lines 166-170: docker_client.containers.get(cid) and the container's
\* address on this network.  A container that is gone cannot be inspected
\* (NotFound); one that is no member has no entry for the network (KeyError).
InspectFailures == {"NotFound", "KeyError"}

\* An inspection that finds no address for the container.
InspectedNothing(cid) == EmptyText

InspectedAddress(cid) == StrV(attached[cid])

\* A connect handler that takes no container to be bound already.
KnownNever(cid) == FALSE

\* Line 164: cid in self.containers.
Known(cid) == cid \in DOMAIN containers

\* handler_network_connect(event), lines 160-172.
HandlerNetworkConnect(event) ==
    LET op  == "handler_network_connect"
        cid == event.container
    IN  /\ Taken(event)
        /\ Dispatch(event) = op
        /\ \/ /\ ActorCheck(event) = "KeyError"
              /\ HandlerEnds(event, op, "none", "KeyError")
           \/ /\ ActorCheck(event) = "other_network"
              /\ HandlerEnds(event, op, "other_network", "None")
           \/ /\ ActorCheck(event) = "own"
              /\ Known(cid)
              /\ HandlerEnds(event, op, "known", "None")
           \/ /\ ActorCheck(event) = "own"
              /\ ~Known(cid)
              /\ cid \notin DOMAIN attached
              /\ \E raised \in InspectFailures :
                     HandlerEnds(event, op, "inspect", raised)
           \/ /\ ActorCheck(event) = "own"
              /\ ~Known(cid)
              /\ cid \in DOMAIN attached
              /\ LET addr   == InspectedAddress(cid)
                     ipaddr == ResolvedAddress(addr, NoKey)
                     sent   == str(ipaddr)
                 IN  \E outcome \in ConnectOutcomes(cid, sent) :
                        /\ address_pool' = ResolvedPool(addr, NoKey)
                        /\ containers' = CommitBinding(cid, ipaddr, outcome)
                        /\ attached' = IF outcome = "ok"
                                       THEN DictSet(attached, cid, sent.a)
                                       ELSE attached
                        /\ LoopAfter(ConnectRaised(outcome))
                        /\ events' = StreamAfter(ConnectRaised(outcome),
                                                 "connect", cid, outcome = "ok")
                        /\ last' = Call(op, cid, ResolvedBranch(addr, NoKey),
                                        ipaddr, sent, outcome,
                                        ConnectRaised(outcome), FALSE)
                        /\ UNCHANGED <<frames, reservations, services, used_ports, gateway, network,
                                       engine_network>>

\* A disconnect handler that takes every container to be bound.
UnknownNever(cid) == FALSE

\* Line 178: cid not in self.containers.
Unknown(cid) == cid \notin DOMAIN containers

\* handler_network_disconnect(event), lines 174-182.
HandlerNetworkDisconnect(event) ==
    LET op  == "handler_network_disconnect"
        cid == event.container
    IN  /\ Taken(event)
        /\ Dispatch(event) = op
        /\ \/ /\ ActorCheck(event) = "KeyError"
              /\ HandlerEnds(event, op, "none", "KeyError")
           \/ /\ ActorCheck(event) = "other_network"
              /\ HandlerEnds(event, op, "other_network", "None")
           \/ /\ ActorCheck(event) = "own"
              /\ Unknown(cid)
              /\ HandlerEnds(event, op, "unknown", "None")
           \/ /\ ActorCheck(event) = "own"
              /\ ~Unknown(cid)
              /\ \E outcome \in DisconnectOutcomes(cid) :
                    LET raised == RemoveRaised(cid, outcome)
                    IN  /\ attached' = IF outcome = "ok"
                                       THEN DictPop(attached, cid)
                                       ELSE attached
                        /\ address_pool' = IF raised = "None"
                                           THEN ReleasedPool(cid)
                                           ELSE address_pool
                        /\ containers' = IF raised = "None"
                                         THEN DictPop(containers, cid)
                                         ELSE containers
                        /\ LoopAfter(raised)
                        /\ events' = StreamAfter(raised, "disconnect", cid,
                                                 outcome = "ok")
                        /\ last' = Call(op, cid, "remove",
                                        DictGet(containers, cid), NoneV,
                                        outcome, raised, FALSE)
                        /\ UNCHANGED <<frames, reservations, services, used_ports, gateway, network,
                                       engine_network>>

\* The events of the stream that no membership change of the controller's
\* network causes: the connects and disconnects of another network, the
\* events of other kinds, and events that lack a field.
OtherEvents ==
    {Event("network", action, OtherNetwork, cid) :
         action \in {"connect", "disconnect"}, cid \in Cids}
    \cup {Event("container", "start", Missing, 1)}
    \cup {Event(Missing, "connect", OwnNetwork, 1),
          Event("network", Missing, OwnNetwork, 1),
          Event("network", "connect", Missing, 1),
          Event("network", "disconnect", Missing, 1)}

\* The engine reports something else on the open stream.
StreamEvent(event) ==
    /\ CountCall
    /\ listener = "listening"
    /\ events' = Append(events, event)
    /\ last' = Call("stream", event.container, "none", NoneV, NoneV, "none",
                    "None", FALSE)
    /\ UNCHANGED <<frames, address_pool, containers, reservations, services, used_ports, attached, gateway,
                   network, engine_network, listener>>

\* How the stream of docker_client.events() can end: the engine closes it
\* and the generator is exhausted, or the connection breaks and the read
\* raises.
StreamEndings == {"exhausted", "ConnectionError"}

\* Line 188: the for loop over an exhausted generator ends and listen()
\* returns; an exception of the read leaves listen().
StreamEndRaised(ending) == IF ending = "exhausted" THEN "None" ELSE ending

StreamEnds ==
    /\ listener = "listening"
    /\ \E ending \in StreamEndings :
           /\ listener' = IF StreamEndRaised(ending) = "None" THEN "returned"
                          ELSE "raised"
           /\ last' = Call("listen", 0, "stream_ended", NoneV, NoneV, "none",
                           StreamEndRaised(ending), FALSE)
    /\ events' = <<>>
    /\ UNCHANGED <<frames, address_pool, containers, reservations, services, used_ports, attached,
                   gateway, calls, network, engine_network>>

\* reload(), lines 194-195: self.network.reload().
Reload ==
    /\ CountCall
    /\ network' = IF ReloadRaised = "None" THEN Handle(attached) ELSE network
    /\ last' = Call("reload", 0, "none", NoneV, NoneV, "none", ReloadRaised,
                    FALSE)
    /\ UNCHANGED <<frames, address_pool, containers, reservations, services, used_ports, attached, gateway,
                   engine_network, events, listener>>

\* self.network.remove(): the engine removes a network that has no
\* container on it, and refuses otherwise.
RemoveOutcomes ==
    IF engine_network # "absent" /\ attached = EmptyDict
    THEN {"ok", "APIError"} ELSE {"APIError"}

\* remove(), lines 197-198: self.network.remove() and nothing else; the
\* engine reports the removal on the open streams.
Remove ==
    /\ CountCall
    /\ \E outcome \in RemoveOutcomes :
           /\ engine_network' = IF outcome = "ok" THEN "absent"
                                ELSE engine_network
           /\ events' = IF outcome = "ok" /\ listener = "listening"
                        THEN Append(events,
                                    Event("network", "destroy", OwnNetwork, 0))
                        ELSE events
           /\ last' = Call("remove", 0, "none", NoneV, NoneV, outcome,
                           IF outcome = "ok" THEN "None" ELSE outcome, FALSE)
    /\ UNCHANGED <<frames, address_pool, containers, reservations, services, used_ports, attached,
                   gateway, network, listener>>

----------------------------------------------------------------------------

Next ==
    \/ \E cid \in Cids, addr \in AddrArgs, reservation \in ReservationKeys :
           AddContainer(cid, addr, reservation)
    \/ \E cid \in Cids : RemoveContainer(cid)
    \/ \E cid \in Cids, a \in Hosts : ExternalConnect(cid, a)
    \/ \E cid \in Cids : ExternalDisconnect(cid)

Spec == Init /\ [][Next]_vars

\* The controllers that created their network (create_network ran).
InitCreated == InitCreate /\ InitRest

SpecCreate == InitCreated /\ [][Next]_vars

\* The event listen() takes next, if the stream holds one.
NextEvent == IF events = <<>> THEN {} ELSE {Head(events)}

\* Lines 188-192: listen() takes the next event and handles it.
ListenStep ==
    \E event \in NextEvent :
        \/ ListenNoHandler(event)
        \/ HandlerNetworkConnect(event)
        \/ HandlerNetworkDisconnect(event)

\* The controller with its event loop: plain add_container(container) and
\* remove_container calls, membership changes made by others, reload() and
\* listen() with the events the engine delivers.
NextEvents ==
    \/ \E cid \in Cids : AddContainer(cid, NoneV, NoKey)
    \/ \E cid \in Cids : RemoveContainer(cid)
    \/ \E cid \in Cids, a \in Hosts : ExternalConnect(cid, a)
    \/ \E cid \in Cids : ExternalDisconnect(cid)
    \/ Listen
    \/ Reload
    \/ \E event \in OtherEvents : StreamEvent(event)
    \/ StreamEnds
    \/ Remove
    \/ ListenStep

SpecEvents == InitCreated /\ [][NextEvents]_vars

\* The same controller, with the listener's context scheduled: an event
\* that is in the stream is taken and handled.  Nothing makes the engine
\* deliver an event or end the stream.
SpecTeardown == InitCreated /\ [][NextEvents]_vars /\ WF_vars(ListenStep)

----------------------------------------------------------------------------
(* BridgeNetwork.__init__ as a step, from the state lines 36-41 set up, on *)
(* an engine that may already have the network, with containers on it.     *)

\* The reserved_ips arguments: the default None, or one of ReservedChoices.
ConstructorReserved == {NoneV} \cup ReservedChoices

\* The memberships a network the engine already has can be in: containers
\* at distinct host addresses other than the bridge's.
Memberships ==
    {m \in UNION {[S -> Hosts \ {EngineGateway}] : S \in SUBSET Cids} :
         \A c1, c2 \in DOMAIN m : c1 # c2 => m[c1] # m[c2]}

InitNew ==
    /\ network = NoneV
    /\ address_pool = Hosts
    /\ containers = EmptyDict
    /\ reservations \in ConstructorReserved
    /\ engine_network \in {"absent", "no_gateway_reported", "gateway_reported"}
    /\ attached \in Memberships
    /\ engine_network = "absent" => attached = EmptyDict
    /\ gateway = EngineGateway
    /\ last = Call("new", 0, "none", NoneV, NoneV, "none", "None", FALSE)
    /\ calls = 0
    /\ events = <<>>
    /\ listener = "idle"
    /\ frames = NoFrames
    /\ services = EmptyDict
    /\ used_ports = {}

\* The address text with its prefix length, as the engine reports it in
\* attrs['Containers'][cid]['IPv4Address'].
CidrV(a) == [t |-> "cidr", a |-> a]

\* specs['IPv4Address'][:-3], line 69: the text without a two-digit prefix
\* length and its slash.
StripPrefix(cidr) == StrV(cidr.a)

\* docker_client.networks.list(names=[name]), line 53: the attrs of the
\* listed network hold its containers, or no container when the engine
\* lists networks without their details.
ListedContainers == {attached, EmptyDict}

\* create_network, lines 75-95.  With reserved_ips left at None the loop
\* over self.reservations.items() raises, after the network is created.
CreateNetwork ==
    /\ engine_network = "absent"
    /\ engine_network' = "no_gateway_reported"
    /\ network' = Handle(EmptyDict)
    /\ IF reservations = NoneV
       THEN /\ last' = Call("__init__", 0, "create", NoneV, NoneV, "none",
                            "AttributeError", FALSE)
            /\ UNCHANGED <<address_pool, reservations, services, used_ports>>
       ELSE /\ address_pool' = CreatePool(reservations)
            /\ reservations' = CreateReservations(reservations)
            /\ last' = Call("__init__", 0, "create", NoneV, NoneV, "none",
                            "None", FALSE)
    /\ UNCHANGED containers

\* Lines 61-66: the gateway the network reports is taken out of the pool;
\* when it reports none, the next free address is reserved under "_",
\* which raises when reserved_ips was left at None.
GatewayRaised ==
    IF engine_network = "no_gateway_reported" /\ reservations = NoneV
    THEN "TypeError" ELSE "None"

\* Lines 68-70, for the first container of attrs['Containers']:
\* add_container(cid, addr) is called with the id text, not a container.
\* It raises at line 128 when reserved_ips was left at None, and otherwise
\* at line 137 (a text has no attribute id), after _remove_ip(addr) ran.
SeedRaised == "AttributeError"

SeedPool(pool, cid, listed) ==
    IF reservations = NoneV THEN pool
    ELSE RemoveIpPool(pool, StripPrefix(CidrV(listed[cid])))

\* attach_to_existing_network, lines 52-73.
AttachToExistingNetwork ==
    /\ engine_network # "absent"
    /\ \E listed \in ListedContainers :
        LET gatewayReported == engine_network = "gateway_reported"
            pool == AttachPool(gatewayReported, StrV(gateway))
        IN  /\ network' = Handle(listed)
            /\ \/ /\ GatewayRaised # "None"
                  /\ address_pool' = pool
                  /\ last' = Call("__init__", 0, "attach", NoneV, NoneV,
                                  "none", GatewayRaised, FALSE)
                  /\ UNCHANGED <<reservations, services, used_ports>>
               \/ /\ GatewayRaised = "None"
                  /\ listed = EmptyDict
                  /\ address_pool' = pool
                  /\ reservations' =
                        IF reservations = NoneV THEN reservations
                        ELSE AttachReservations(reservations, gatewayReported)
                  /\ last' = Call("__init__", 0, "attach", NoneV, NoneV,
                                  "none", "None", FALSE)
               \/ /\ GatewayRaised = "None"
                  /\ \E cid \in DOMAIN listed :
                        /\ address_pool' = SeedPool(pool, cid, listed)
                        /\ last' = Call("__init__", cid, "attach",
                                        StripPrefix(CidrV(listed[cid])), NoneV,
                                        "none", SeedRaised, FALSE)
                  /\ reservations' =
                        IF reservations = NoneV THEN reservations
                        ELSE AttachReservations(reservations, gatewayReported)
    /\ UNCHANGED <<containers, engine_network>>

\* __init__, lines 43-44: attach to the network when the engine has it,
\* create it otherwise.
Construct ==
    /\ network = NoneV
    /\ last.op = "new"
    /\ \/ AttachToExistingNetwork
       \/ CreateNetwork
    /\ UNCHANGED <<frames, attached, gateway, calls, events, listener,
                   services, used_ports>>

SpecConstruct == InitNew /\ [][Construct]_vars

----------------------------------------------------------------------------
(* add_container, remove_container and the handlers statement by           *)
(* statement, with listen() running in an execution context of its own     *)
(* next to the context that calls add_container and remove_container.      *)
(* Nothing in the code orders the statements of the two contexts: they      *)
(* interleave freely.                                                      *)

\* The controller has created its network and listen() has opened the
\* event stream in its own context.
InitListening ==
    /\ \E reserved_ips \in ReservedChoices :
           /\ address_pool = CreatePool(reserved_ips)
           /\ reservations = CreateReservations(reserved_ips)
    /\ engine_network = "no_gateway_reported"
    /\ containers = EmptyDict
    /\ attached = EmptyDict
    /\ gateway = EngineGateway
    /\ last = Call("listen", 0, "none", NoneV, NoneV, "none", "None", FALSE)
    /\ calls = 0
    /\ network = Handle(EmptyDict)
    /\ events = <<>>
    /\ listener = "listening"
    /\ frames = NoFrames
    /\ services = EmptyDict
    /\ used_ports = {}

\* Context t goes on to the statement pc of its call.
Goto(t, pc, addr, ipaddr) ==
    frames' = [frames EXCEPT ![t] = Frame(frames[t].op, pc, frames[t].cid,
                                          addr, frames[t].reservation, ipaddr)]

\* The call of context t ends, by a return or by an exception.
Return(t) == frames' = [frames EXCEPT ![t] = IdleFrame]

\* An exception leaves the call of context t: in the listener's context it
\* leaves listen() too.
LoopAfterRaise(t) ==
    listener' = IF t = "listener" THEN "raised" ELSE listener

\* Context t calls add_container(container, addr, reservation).
BeginAdd(t, cid, addr, reservation) ==
    /\ CountCall
    /\ frames[t] = IdleFrame
    /\ frames' = [frames EXCEPT ![t] =
                      Frame("add_container", "resolve", cid, addr, reservation,
                            NoneV)]
    /\ UNCHANGED <<address_pool, containers, reservations, services, used_ports, attached, gateway,
                   last, network, engine_network, events, listener>>

\* Context t calls remove_container(cid).
BeginRemove(t, cid) ==
    /\ CountCall
    /\ frames[t] = IdleFrame
    /\ frames' = [frames EXCEPT ![t] =
                      Frame("remove_container", "disconnect", cid, NoneV, NoKey,
                            NoneV)]
    /\ UNCHANGED <<address_pool, containers, reservations, services, used_ports, attached, gateway,
                   last, network, engine_network, events, listener>>

\* Lines 188-192 and 161, 175: listen() takes the next event and enters
\* its handler, up to the handler's test of self.containers.
TakeEvent ==
    /\ listener = "listening"
    /\ frames["listener"] = IdleFrame
    /\ events # <<>>
    /\ LET event   == Head(events)
           handler == Dispatch(event)
           raises  == \/ handler = "KeyError"
                      \/ handler # "none" /\ ActorCheck(event) = "KeyError"
           enters  == /\ handler \notin {"none", "KeyError"}
                      /\ ActorCheck(event) = "own"
       IN  /\ listener' = IF raises THEN "raised" ELSE listener
           /\ events' = IF raises THEN <<>> ELSE Tail(events)
           /\ frames' = IF enters
                        THEN [frames EXCEPT !["listener"] =
                                  Frame(handler, "check", event.container,
                                        NoneV, NoKey, NoneV)]
                        ELSE frames
    /\ UNCHANGED <<address_pool, containers, reservations, services, used_ports, attached, gateway,
                   last, calls, network, engine_network>>

\* Lines 164 and 178: the handler's test of self.containers.
Check ==
    LET f == frames["listener"]
    IN  /\ f.pc = "check"
        /\ IF f.op = "handler_network_connect"
           THEN IF Known(f.cid) THEN Return("listener")
                ELSE Goto("listener", "inspect", NoneV, NoneV)
           ELSE IF Unknown(f.cid) THEN Return("listener")
                ELSE Goto("listener", "disconnect", NoneV, NoneV)
        /\ UNCHANGED <<address_pool, containers, reservations, services, used_ports, attached,
                       gateway, last, calls, network, engine_network, events,
                       listener>>

\* Lines 166-170: the handler asks the engine for the container's address.
Inspect ==
    LET f == frames["listener"]
    IN  /\ f.pc = "inspect"
        /\ IF f.cid \in DOMAIN attached
           THEN /\ Goto("listener", "resolve", InspectedAddress(f.cid), NoneV)
                /\ UNCHANGED <<events, listener>>
           ELSE /\ Return("listener")
                /\ listener' = "raised"
                /\ events' = <<>>
        /\ UNCHANGED <<address_pool, containers, reservations, services, used_ports, attached,
                       gateway, last, calls, network, engine_network>>

\* Lines 128-135 of add_container: the address is resolved.  A reserved
\* address is taken as it is and an explicit one is taken out of the pool
\* by _remove_ip; _get_next_address reads the smallest address of the
\* pool (line 99) and removes the pool's first element in a statement of
\* its own (line 100).
Resolve(t) ==
    LET f == frames[t]
    IN  /\ f.pc = "resolve"
        /\ IF ResolvedBranch(f.addr, f.reservation) = "next" /\ address_pool # {}
           THEN /\ Goto(t, "pop_first", f.addr, NextAddressValue(address_pool))
                /\ UNCHANGED address_pool
           ELSE /\ address_pool' = ResolvedPool(f.addr, f.reservation)
                /\ Goto(t, "connect", f.addr,
                        ResolvedAddress(f.addr, f.reservation))
        /\ UNCHANGED <<containers, reservations, services, used_ports, attached, gateway, last,
                       calls, network, engine_network, events, listener>>

\* Line 100 of _get_next_address: self.address_pool.pop(0) removes the
\* smallest address the pool holds now, and raises IndexError when the
\* pool has become empty.
PopFirst(t) ==
    LET f == frames[t]
    IN  /\ f.pc = "pop_first"
        /\ address_pool' = NextAddressPool(address_pool)
        /\ IF address_pool # {}
           THEN /\ Goto(t, "connect", f.addr, f.ipaddr)
                /\ UNCHANGED <<events, listener>>
           ELSE /\ Return(t)
                /\ LoopAfterRaise(t)
                /\ events' = IF t = "listener" THEN <<>> ELSE events
        /\ UNCHANGED <<containers, reservations, services, used_ports, attached, gateway, last,
                       calls, network, engine_network>>

\* Lines 139-142 of add_container: the engine call.
Connect(t) ==
    LET f    == frames[t]
        sent == str(f.ipaddr)
    IN  /\ f.pc = "connect"
        /\ \E outcome \in ConnectOutcomes(f.cid, sent) :
              IF ConnectRaised(outcome) = "None"
              THEN /\ attached' = DictSet(attached, f.cid, sent.a)
                   /\ events' = Emit("connect", f.cid, TRUE)
                   /\ Goto(t, "commit", f.addr, f.ipaddr)
                   /\ UNCHANGED listener
              ELSE /\ Return(t)
                   /\ LoopAfterRaise(t)
                   /\ events' = IF t = "listener" THEN <<>> ELSE events
                   /\ UNCHANGED attached
        /\ UNCHANGED <<address_pool, containers, reservations, services, used_ports, gateway, last,
                       calls, network, engine_network>>

\* Line 144 of add_container: the binding is recorded.
Commit(t) ==
    LET f == frames[t]
    IN  /\ f.pc = "commit"
        /\ containers' = DictSet(containers, f.cid, f.ipaddr)
        /\ Return(t)
        /\ UNCHANGED <<address_pool, reservations, services, used_ports, attached, gateway, last,
                       calls, network, engine_network, events, listener>>

\* Lines 149-154 of remove_container: the engine call, its APIError
\* swallowed.
Disconnect(t) ==
    LET f == frames[t]
    IN  /\ f.pc = "disconnect"
        /\ \E outcome \in DisconnectOutcomes(f.cid) :
              /\ attached' = IF outcome = "ok" THEN DictPop(attached, f.cid)
                             ELSE attached
              /\ IF DisconnectRaised(outcome) = "None"
                 THEN /\ events' = Emit("disconnect", f.cid, outcome = "ok")
                      /\ Goto(t, "pop", NoneV, NoneV)
                      /\ UNCHANGED listener
                 ELSE /\ events' = IF t = "listener" THEN <<>> ELSE events
                      /\ Return(t)
                      /\ LoopAfterRaise(t)
        /\ UNCHANGED <<address_pool, containers, reservations, services, used_ports, gateway, last,
                       calls, network, engine_network>>

\* Line 156: the map once self.containers.pop(cid, None) has run.
PoppedBindings(cid) == DictPop(containers, cid)

\* Line 156 of remove_container: ipaddr = self.containers.pop(cid, None).
Pop(t) ==
    LET f      == frames[t]
        ipaddr == DictGet(containers, f.cid)
    IN  /\ f.pc = "pop"
        /\ containers' = PoppedBindings(f.cid)
        /\ IF Truthy(ipaddr) THEN Goto(t, "add_ip", NoneV, ipaddr)
           ELSE Return(t)
        /\ UNCHANGED <<address_pool, reservations, services, used_ports, attached, gateway, last,
                       calls, network, engine_network, events, listener>>

\* Lines 157-158 of remove_container: self._add_ip(ipaddr).
AddIp(t) ==
    LET f == frames[t]
    IN  /\ f.pc = "add_ip"
        /\ address_pool' = AddIpPool(address_pool, f.ipaddr)
        /\ Return(t)
        /\ UNCHANGED <<containers, reservations, services, used_ports, attached, gateway, last,
                       calls, network, engine_network, events, listener>>

NextRace ==
    \/ \E cid \in Cids : BeginAdd("caller", cid, NoneV, NoKey)
    \/ \E cid \in Cids : BeginRemove("caller", cid)
    \/ \E cid \in Cids, a \in Hosts : ExternalConnect(cid, a)
    \/ \E cid \in Cids : ExternalDisconnect(cid)
    \/ TakeEvent
    \/ Check
    \/ Inspect
    \/ \E t \in Contexts : Resolve(t)
    \/ \E t \in Contexts : PopFirst(t)
    \/ \E t \in Contexts : Connect(t)
    \/ \E t \in Contexts : Commit(t)
    \/ \E t \in Contexts : Disconnect(t)
    \/ \E t \in Contexts : Pop(t)
    \/ \E t \in Contexts : AddIp(t)

SpecRace == InitListening /\ [][NextRace]_vars

\* One caller, every combination of the addr and reservation arguments.
NextResolve ==
    \/ \E cid \in Cids, addr \in AddrArgs, reservation \in ReservationKeys :
           BeginAdd("caller", cid, addr, reservation)
    \/ Resolve("caller")
    \/ PopFirst("caller")
    \/ Connect("caller")
    \/ Commit("caller")

SpecResolve == InitCreated /\ [][NextResolve]_vars

\* The container that is bound when the release begins, and the others.
BoundContainer == 1
OtherContainers == Cids \ {BoundContainer}

\* The controller has created its network, add_container has bound one
\* container at the first address of the pool, the event of that
\* attachment has been handled and listen() waits for the next one.
InitBound ==
    /\ \E reserved_ips \in ReservedChoices :
           LET pool == CreatePool(reserved_ips)
           IN  /\ address_pool = NextAddressPool(pool)
               /\ reservations = CreateReservations(reserved_ips)
               /\ containers = DictSet(EmptyDict, BoundContainer,
                                       NextAddressValue(pool))
               /\ attached = DictSet(EmptyDict, BoundContainer,
                                     SortedSetFirst(pool))
    /\ engine_network = "no_gateway_reported"
    /\ gateway = EngineGateway
    /\ last = Call("listen", 0, "none", NoneV, NoneV, "none", "None", FALSE)
    /\ calls = 0
    /\ network = Handle(EmptyDict)
    /\ events = <<>>
    /\ listener = "listening"
    /\ frames = NoFrames
    /\ services = EmptyDict
    /\ used_ports = {}

\* One caller releases the bound container, a second caller allocates
\* the other containers and listen() handles the events of both,
\* statement by statement.
NextRelease ==
    \/ BeginRemove("caller", BoundContainer)
    \/ \E cid \in OtherContainers : BeginAdd("caller2", cid, NoneV, NoKey)
    \/ TakeEvent
    \/ Check
    \/ Inspect
    \/ \E t \in Contexts : Resolve(t)
    \/ \E t \in Contexts : PopFirst(t)
    \/ \E t \in Contexts : Connect(t)
    \/ \E t \in Contexts : Commit(t)
    \/ \E t \in Contexts : Disconnect(t)
    \/ \E t \in Contexts : Pop(t)
    \/ \E t \in Contexts : AddIp(t)

SpecRelease == InitBound /\ [][NextRelease]_vars

\* One caller allocates and listen() handles the events of its
\* attachments, statement by statement; nothing else acts on the engine.
NextAllocateEvent ==
    \/ \E cid \in Cids : BeginAdd("caller", cid, NoneV, NoKey)
    \/ TakeEvent
    \/ Check
    \/ Inspect
    \/ \E t \in Contexts : Resolve(t)
    \/ \E t \in Contexts : PopFirst(t)
    \/ \E t \in Contexts : Connect(t)
    \/ \E t \in Contexts : Commit(t)

SpecAllocateEvent == InitListening /\ [][NextAllocateEvent]_vars

\* Two callers that run add_container(container) side by side.
NextAllocate ==
    \/ \E t \in Callers, cid \in Cids : BeginAdd(t, cid, NoneV, NoKey)
    \/ \E t \in Callers : Resolve(t)
    \/ \E t \in Callers : PopFirst(t)
    \/ \E t \in Callers : Connect(t)
    \/ \E t \in Callers : Commit(t)

SpecAllocate == InitCreated /\ [][NextAllocate]_vars

----------------------------------------------------------------------------
(* Properties.                                                             *)

\* The addresses bound to containers (the values of containers).
BoundAddresses == {containers[c].a : c \in {x \in DOMAIN containers : Truthy(containers[x])}}

\* The addresses held by reservations.
ReservedAddresses == {reservations[k].a : k \in {x \in DOMAIN reservations : Truthy(reservations[x])}}

\* a is the numerically smallest address of pool.
IsSmallest(a, pool) == a \in pool /\ \A b \in pool : a <= b

\* The controller's pool, bindings and reservations are left as they were.
ControllerUnchanged ==
    /\ address_pool' = address_pool
    /\ containers' = containers
    /\ reservations' = reservations

\* The step is a call of add_container that resolved its address by branch.
AddStep(branch) == last'.op = "add_container" /\ last'.branch = branch

\* C1: in every reachable state no address is both in the free pool and
\* bound to a container.
C1_PoolAndBoundDisjoint == address_pool \cap BoundAddresses = {}

\* C2: in every reachable state every host address of the subnet is in the
\* free pool, bound to a container or permanently reserved (a reservation
\* or the gateway): none is missing from all three.
C2_NoHostAddressLost ==
    Hosts \subseteq (address_pool \cup BoundAddresses \cup ReservedAddresses \cup {gateway})

\* C3: in every reachable state no two container ids are bound to the same
\* address.
C3_BindingsInjective ==
    \A c1, c2 \in DOMAIN containers :
        (c1 # c2 /\ Truthy(containers[c1]) /\ Truthy(containers[c2]))
            => containers[c1].a # containers[c2].a

\* C4: an add_container whose engine attach call fails leaves the pool, the
\* binding map and the reservations exactly as they were before the call.
C4_FailedAttachChangesNothing ==
    [][(last'.op = "add_container" /\ last'.engine = "APIError")
          => ControllerUnchanged]_vars

C6_ExhaustedPoolFailsWithoutEngineCall ==
    [][(AddStep("next") /\ address_pool = {})
          => /\ last'.raised = "PoolExhausted"
             /\ last'.engine = "none"
             /\ containers' = containers]_vars

\* C7: an add_container with an explicit address that is not in the free
\* pool (bound to a container, or reserved) fails and leaves the pool and
\* the binding map unchanged.
C7_UnavailableAddressRejected ==
    [][(/\ AddStep("explicit")
        /\ last'.ipaddr.a \notin address_pool
        /\ last'.ipaddr.a \in BoundAddresses \cup ReservedAddresses)
          => /\ last'.raised # "None"
             /\ address_pool' = address_pool
             /\ containers' = containers]_vars

\* C8: an address held by a reservation is never in the free pool, and is
\* never the address a no-preference add_container hands out.
C8_ReservedNeverFree ==
    /\ ReservedAddresses \cap address_pool = {}
    /\ (last.op = "add_container" /\ last.branch = "next")
           => last.sent.a \notin ReservedAddresses

\* What a call would return to report that the container is not bound.
NotFound == [t |-> "str", a |-> -3]

\* The step is a remove_container of a container that has no binding.
ReleaseUnboundStep ==
    last'.op = "remove_container" /\ last'.cid \notin DOMAIN containers

\* C9, as claimed: remove_container of a container that has no binding
\* changes nothing, raises nothing and reports "not found" to the caller.
C9_ReleaseUnboundReportsNotFound ==
    [][ReleaseUnboundStep
          => /\ ControllerUnchanged
             /\ last'.raised = "None"
             /\ last'.returned = NotFound]_vars

\* C9, as amended: remove_container of a container that has no binding
\* changes neither the pool, the binding map nor the reservations and
\* raises nothing; it returns None, as every call of it does.
C9_ReleaseUnboundIsNoOp ==
    [][ReleaseUnboundStep
          => /\ ControllerUnchanged
             /\ last'.raised = "None"
             /\ last'.returned = NoneV]_vars

\* C9, witness: remove_container has just returned for a container that
\* had no binding, while another container is bound.
C9_Witness ==
    /\ last.op = "remove_container"
    /\ last.ipaddr = NoneV
    /\ last.raised = "None"
    /\ DOMAIN containers # {}

\* C10: a remove_container that directly follows a remove_container of the
\* same container leaves pool, bindings and reservations as the first call
\* left them, and does not fail.
C10_SecondReleaseIsNoOp ==
    [][(last'.op = "remove_container" /\ last'.again)
          => ControllerUnchanged /\ last'.raised = "None"]_vars

\* C10, witness: the second of two remove_container calls in a row for one
\* container has returned; the engine refused its disconnect.
C10_Witness ==
    /\ last.op = "remove_container"
    /\ last.again
    /\ last.engine = "APIError"
    /\ last.raised = "None"

\* The step is a remove_container of a container that is bound to an address.
ReleaseBoundStep ==
    /\ last'.op = "remove_container"
    /\ last'.cid \in DOMAIN containers
    /\ Truthy(containers[last'.cid])

\* C11: remove_container of a bound container removes the container's
\* binding and puts its address back into the free pool, without failing,
\* whether the engine performed the disconnect or refused it because the
\* container was already disconnected.
C11_ReleaseReturnsAddress ==
    [][ReleaseBoundStep
          => /\ last'.cid \notin DOMAIN containers'
             /\ containers[last'.cid].a \in address_pool'
             /\ last'.raised = "None"]_vars

\* C11, witness: remove_container has returned for a container that was
\* bound; the engine refused the disconnect, the binding is gone and the
\* address is in the pool.
C11_Witness ==
    /\ last.op = "remove_container"
    /\ Truthy(last.ipaddr)
    /\ last.engine = "APIError"
    /\ last.raised = "None"
    /\ last.cid \notin DOMAIN containers
    /\ last.ipaddr.a \in address_pool

\* listen() handles the event at the head of the stream in this step.
HandlesEvent(action) ==
    /\ listener = "listening"
    /\ events # <<>>
    /\ Head(events).Type = "network"
    /\ Head(events).Action = action
    /\ last'.op \in {"handler_network_connect", "handler_network_disconnect"}

\* Neither the controller's state nor the engine's membership changes, and
\* no engine call is made.
NothingDone ==
    /\ ControllerUnchanged
    /\ attached' = attached
    /\ last'.engine = "none"

\* C12: handling a connect event of the controller's own network for a
\* container that is already bound leaves the binding map, the pool and
\* the reservations unchanged and issues no engine connect call.
C12_ConnectEventForBoundIsNoOp ==
    [][(/\ HandlesEvent("connect")
        /\ Head(events).Actor = OwnNetwork
        /\ Head(events).container \in DOMAIN containers)
          => NothingDone /\ last'.raised = "None"]_vars

\* C12, witness: a container was bound by a plain add_container while
\* listen() ran, and the handler has returned from the connect event the
\* engine sent for it: the container is bound at the address it is attached
\* at and the loop goes on.
C12_Witness ==
    /\ last.op = "handler_network_connect"
    /\ last.branch = "known"
    /\ listener = "listening"
    /\ \E c \in DOMAIN containers \cap DOMAIN attached :
           /\ c = last.cid
           /\ containers[c].a = attached[c]
           /\ containers[c].a \notin address_pool

\* C13: handling a disconnect event of the controller's own network for a
\* container that has no binding changes neither the pool, the bindings nor
\* the reservations and issues no engine disconnect call.
C13_DisconnectEventForUnknownIsNoOp ==
    [][(/\ HandlesEvent("disconnect")
        /\ Head(events).Actor = OwnNetwork
        /\ Head(events).container \notin DOMAIN containers)
          => NothingDone /\ last'.raised = "None"]_vars

\* C13, witness: the handler has returned from the disconnect event of a
\* container that is neither bound nor attached any more, and the loop
\* goes on.
C13_Witness ==
    /\ last.op = "handler_network_disconnect"
    /\ last.branch = "unknown"
    /\ last.cid \notin DOMAIN containers
    /\ last.cid \notin DOMAIN attached
    /\ listener = "listening"

\* C14: handling a connect or a disconnect event that names another
\* network than the controller's own changes neither the pool, the
\* bindings nor the reservations and makes no engine call, whatever the
\* event's container and the controller's state.
C14_OtherNetworkEventsDiscarded ==
    [][(/\ \/ HandlesEvent("connect")
           \/ HandlesEvent("disconnect")
        /\ Head(events).Actor = OtherNetwork)
          => NothingDone /\ last'.raised = "None"]_vars

\* C14, witness: the handler has returned from a disconnect event of
\* another network that names a container bound on the controller's own
\* network; the container is still bound.
C14_Witness ==
    /\ last.op = "handler_network_disconnect"
    /\ last.branch = "other_network"
    /\ last.cid \in DOMAIN containers
    /\ Truthy(containers[last.cid])
    /\ listener = "listening"

\* C15: handling a connect event of the controller's own network for a
\* container that is not bound completes, and leaves the container bound
\* at the address it has on the network, with that address out of the
\* free pool.
C15_ConnectEventBinds ==
    [][(/\ HandlesEvent("connect")
        /\ Head(events).Actor = OwnNetwork
        /\ Head(events).container \notin DOMAIN containers
        /\ Head(events).container \in DOMAIN attached)
          => LET cid == Head(events).container
             IN  /\ last'.raised = "None"
                 /\ cid \in DOMAIN containers'
                 /\ containers'[cid].a = attached[cid]
                 /\ attached[cid] \notin address_pool']_vars

\* The controller's bindings and pool, as the step leaves them, agree with
\* the engine's membership: exactly the attached containers are bound, each
\* at the address it is attached at, and no attached address is free.
AgreesWithEngine ==
    /\ DOMAIN containers' = DOMAIN attached'
    /\ \A c \in DOMAIN attached' :
           /\ containers'[c].a = attached'[c]
           /\ attached'[c] \notin address_pool'

\* C19: after reload() the controller's bindings and pool agree with the
\* engine's membership: a container connected by others while no events
\* were consumed is bound, with its address out of the pool, and a
\* container disconnected meanwhile is unbound, with its address back in
\* the pool.
C19_ReloadReconciles ==
    [][(last'.op = "reload" /\ listener # "listening")
          => /\ AgreesWithEngine
             /\ \A c \in DOMAIN containers \ DOMAIN attached' :
                    Truthy(containers[c]) => containers[c].a \in address_pool']_vars

\* An event that lacks its Type, its Action or its Actor.
Malformed(event) ==
    event.Type = Missing \/ event.Action = Missing \/ event.Actor = Missing

\* An event that names a container the engine no longer has on the
\* network: it cannot be inspected, or has no address there.
Uninspectable(event) ==
    /\ event.Type = "network" /\ event.Action = "connect"
    /\ event.Actor = OwnNetwork
    /\ event.container \notin DOMAIN containers
    /\ event.container \notin DOMAIN attached

\* listen() takes the event at the head of the stream in this step.
TakesEvent ==
    /\ listener = "listening"
    /\ events # <<>>
    /\ last'.op \in {"event", "handler_network_connect",
                     "handler_network_disconnect"}

\* C20: an event that is malformed, or names a container that can no
\* longer be inspected, is dropped: listen() goes on with the events that
\* follow, and the pool and the bindings are left unchanged.
C20_BadEventDropped ==
    [][(TakesEvent /\ (Malformed(Head(events)) \/ Uninspectable(Head(events))))
          => /\ listener' = "listening"
             /\ events' = Tail(events)
             /\ address_pool' = address_pool
             /\ containers' = containers]_vars

\* The constructor has returned without raising.
Constructed == last.op = "__init__" /\ last.raised = "None"

\* The addresses set aside for good once the constructor has returned: the
\* reservations and the gateway the adopted network reports.
SetAside ==
    ReservedAddresses
        \cup (IF engine_network = "gateway_reported" THEN {gateway} ELSE {})

C18_AdoptionSeedsBindings ==
    (last.op = "__init__" /\ last.branch = "attach")
        => /\ last.raised = "None"
           /\ DOMAIN containers = DOMAIN attached
           /\ \A c \in DOMAIN attached :
                  /\ containers[c].a = attached[c]
                  /\ attached[c] \notin address_pool

\* Context t is between its first read and its last write of the pool, the
\* bindings and the reservations: add_container from the resolution of the
\* address to the recording of the binding, remove_container between its
\* pop and its _add_ip, a handler from its test of self.containers to the
\* end of the add_container or remove_container it calls.
InSection(t) ==
    LET f == frames[t]
    IN  \/ f.op = "add_container" /\ f.pc \in {"pop_first", "connect", "commit"}
        \/ f.op = "remove_container" /\ f.pc = "add_ip"
        \/ f.op = "handler_network_connect"
               /\ f.pc \in {"inspect", "resolve", "pop_first", "connect",
                             "commit"}
        \/ f.op = "handler_network_disconnect"
               /\ f.pc \in {"disconnect", "pop", "add_ip"}

\* An address is out of the pool for a binding that is not recorded yet.
PartialUpdate(t) ==
    LET f == frames[t]
    IN  /\ f.pc \in {"connect", "commit"}
        /\ Truthy(f.ipaddr)
        /\ f.ipaddr.a \notin address_pool
        /\ f.ipaddr.a \notin BoundAddresses

\* C16: at any time at most one of the two execution contexts is between
\* its first read and its last write of pool, bindings and reservations,
\* so that the listener never tests self.containers while the caller has
\* taken an address out of the pool and not yet recorded its binding.
C16_OneContextInSection ==
    /\ ~(InSection("caller") /\ InSection("listener"))
    /\ ~(PartialUpdate("caller") /\ frames["listener"].pc = "check")

\* C23: a remove_container whose engine disconnect fails while the engine
\* still has the container connected (a failure other than "already
\* disconnected") raises to the caller, and is not carried out as a
\* release: the binding and the pool stay as they were.
C23_DetachFailureSurfaced ==
    [][(/\ last'.op = "remove_container"
        /\ last'.cid \in DOMAIN attached
        /\ last'.engine = "APIError")
          => /\ last'.raised # "None"
             /\ ControllerUnchanged]_vars

\* C28: a container that is bound stays bound at the same address until
\* its binding is removed: no step moves a bound container to another
\* address.
C28_BoundStaysAtItsAddress ==
    [][\A c \in DOMAIN containers \cap DOMAIN containers' :
           containers'[c] = containers[c]]_vars

StreamEndStep ==
    /\ listener = "listening"
    /\ last'.op = "listen"
    /\ last'.branch = "stream_ended"

\* C21: when the event stream ends or its connection is lost, listen()
\* stops by raising the loss to its caller: it does not return as if it
\* had finished normally.
C21_StreamLossReported ==
    [][StreamEndStep
          => /\ listener' = "raised"
             /\ last'.raised # "None"]_vars

\* C29: listen() reloads the network handle before it opens the event
\* stream: when it starts to consume events the handle holds the engine's
\* current membership and no event has been taken yet.
C29_ListenReloadsFirst ==
    [][(listener # "listening" /\ listener' = "listening")
          => /\ network' = Handle(attached)
             /\ events' = <<>>
             /\ last'.op = "listen"]_vars

\* C29, witness: listen() has just started on a network to which a
\* container was connected by others since the handle was loaded; the
\* handle holds that container.
C29_Witness ==
    /\ last.op = "listen"
    /\ last.branch = "none"
    /\ listener = "listening"
    /\ attached # EmptyDict
    /\ network = Handle(attached)
    /\ events = <<>>

\* remove() has torn the network down.
TornDown == engine_network = "absent"

\* C24: once remove() has torn the controller's network down, a listen()
\* that is running eventually ends: it does not stay blocked on the event
\* stream for ever.
C24_TeardownEndsListen == TornDown ~> (listener # "listening")

\* Context t executes the address resolution of its add_container call in
\* this step.
ResolveStep(t) == frames[t].pc = "resolve" /\ frames'[t].pc # "resolve"

\* C22: add_container resolves its address in priority order.  When the
\* reservation key names a stored reservation, the reserved address is
\* used, also when an explicit address is given as well; otherwise the
\* explicit address is used when one is given; otherwise the smallest
\* address of the free pool is used, or none when the pool is empty.  The
\* engine is then asked for the resolved address, and that address is the
\* one bound.
C22_ResolutionPriority ==
    [][LET f == frames["caller"]
           g == frames'["caller"]
           reserved_ip == DictGet(reservations, f.reservation)
       IN  /\ ResolveStep("caller") =>
                  IF Truthy(reserved_ip) THEN g.ipaddr.a = reserved_ip.a
                  ELSE IF Truthy(f.addr) THEN g.ipaddr.a = f.addr.a
                  ELSE IF address_pool # {}
                       THEN IsSmallest(g.ipaddr.a, address_pool)
                  ELSE g.ipaddr = NoneV
           /\ (f.pc = "connect" /\ g.pc = "commit") =>
                  /\ attached'[f.cid] = f.ipaddr.a
                  /\ g.ipaddr = f.ipaddr
           /\ (f.pc = "commit" /\ g.pc = "idle") =>
                  containers'[f.cid].a = f.ipaddr.a]_vars

\* C22, witness: add_container was called with the key of a stored
\* reservation and with an explicit address that differs from the reserved
\* one; the engine has attached the container at the reserved address and
\* the call is about to record the binding at it.
C22_Witness ==
    LET f == frames["caller"]
    IN  /\ f.op = "add_container"
        /\ f.pc = "commit"
        /\ f.reservation = "proxy"
        /\ "proxy" \in DOMAIN reservations
        /\ Truthy(f.addr)
        /\ f.addr.a # reservations["proxy"].a
        /\ f.ipaddr.a = reservations["proxy"].a
        /\ attached[f.cid] = reservations["proxy"].a
        /\ f.addr.a \in address_pool

\* Context t is in an add_container call that has obtained its address
\* from _get_next_address and has not returned yet.
HoldsAddress(t) ==
    /\ frames[t].op = "add_container"
    /\ frames[t].pc \in {"connect", "commit"}
    /\ Truthy(frames[t].ipaddr)

\* C27: two add_container calls with no address and no reservation that run
\* at the same time in two contexts never hold the same address, and the
\* addresses they hold are out of the pool.
C27_ConcurrentAllocationsDiffer ==
    (HoldsAddress("caller") /\ HoldsAddress("caller2"))
        => /\ frames["caller"].ipaddr.a # frames["caller2"].ipaddr.a
           /\ frames["caller"].ipaddr.a \notin address_pool
           /\ frames["caller2"].ipaddr.a \notin address_pool

\* The caller's add_container has attached container c: the call stands
\* before the recording of the binding, or has recorded it.
SyncAllocated(c) ==
    /\ c \in DOMAIN attached
    /\ \/ /\ frames["caller"].op = "add_container"
          /\ frames["caller"].cid = c
          /\ frames["caller"].pc = "commit"
       \/ c \in DOMAIN containers

\* The listener's context takes a step of the connect handler for c.
ConnectHandlerStep(c) ==
    /\ frames["listener"].op = "handler_network_connect"
    /\ frames["listener"].cid = c
    /\ frames'["listener"] # frames["listener"]

\* C25: while the caller's add_container for a container is between its
\* accepted engine connect and the recording of the binding, or has just
\* recorded it, the connect handler that processes the container's event
\* takes no address out of the pool and binds the container at no other
\* address than the one the engine has it at, which the caller chose; the
\* caller's call records the binding at the address it chose.
C25_EventDuringAllocate ==
    [][/\ \A c \in Cids :
             (SyncAllocated(c) /\ ConnectHandlerStep(c))
                 => /\ address_pool' = address_pool
                    /\ attached' = attached
                    /\ \/ containers' = containers
                       \/ /\ c \in DOMAIN containers'
                          /\ containers'[c].a = attached[c]
       /\ (frames["caller"].pc = "commit" /\ frames'["caller"].pc = "idle")
              => /\ containers'[frames["caller"].cid].a = frames["caller"].ipaddr.a
                 /\ attached[frames["caller"].cid] = frames["caller"].ipaddr.a]_vars

\* C25, witness: the caller's add_container stands before the recording of
\* the binding, and the connect handler for the same container has found
\* it unbound, has inspected it and has resolved the address the caller
\* chose.
C25_Witness ==
    /\ frames["caller"].op = "add_container"
    /\ frames["caller"].pc = "commit"
    /\ frames["listener"].op = "handler_network_connect"
    /\ frames["listener"].pc = "connect"
    /\ frames["listener"].cid = frames["caller"].cid
    /\ frames["listener"].ipaddr.a = frames["caller"].ipaddr.a
    /\ frames["caller"].ipaddr.a \notin address_pool
    /\ address_pool # {}

\* C26: while remove_container, the disconnect handler and the
\* add_container of another container run side by side, no address is at
\* once in the pool and bound to a container.
C26_ReleasedNotBoundAndFree == address_pool \cap BoundAddresses = {}

----------------------------------------------------------------------------
(* NetworkManager (netmanager.py), the earlier controller that only        *)
(* watches the network: it attaches nothing itself and keeps its pool and   *)
(* its bindings by the events the engine delivers.  Its fields are          *)
(* self.address_pool, self.containers and self.network, like the           *)
(* controller's.                                                           *)

\* remove(ip), lines 54-62: the pool it leaves (a KeyError is swallowed).
NetManagerRemove(pool, ip) == pool \ {ip_address(ip).a}

\* add(ip), lines 64-68: the pool it leaves.
NetManagerAdd(pool, ip) == pool \cup {ip_address(ip).a}

\* container_start(cid, addr), lines 70-73: remove(addr) returns an
\* IPv4Address, which is truthy, and the binding is written over whatever
\* the container was bound to.
ContainerStartPool(pool, addr) == NetManagerRemove(pool, addr)

ContainerStartBindings(bound, cid, addr) == DictSet(bound, cid, ip_address(addr))

\* container_stop(cid), lines 75-79: the address of a tracked container
\* goes back to the pool and the binding is deleted.
ContainerStopPool(pool, bound, cid) ==
    IF Truthy(DictGet(bound, cid)) THEN NetManagerAdd(pool, bound[cid])
    ELSE pool

ContainerStopBindings(bound, cid) ==
    IF Truthy(DictGet(bound, cid)) THEN DictPop(bound, cid) ELSE bound

\* Lines 35-40: the gateway the network reports is taken out of the pool,
\* or the first address when it reports none.
NetManagerPool(gatewayReported) ==
    IF gatewayReported THEN NetManagerRemove(Hosts, StrV(EngineGateway))
    ELSE NextAddressPool(Hosts)

\* Lines 42-44: container_start for every container the network has.
SeededPool(pool, membership) ==
    pool \ {StripPrefix(CidrV(membership[c])).a : c \in DOMAIN membership}

SeededBindings(membership) ==
    [c \in DOMAIN membership |-> ip_address(StripPrefix(CidrV(membership[c])))]

\* __init__(network_id), lines 21-44, on a network the engine has.
InitNetManager ==
    /\ engine_network \in {"no_gateway_reported", "gateway_reported"}
    /\ attached \in Memberships
    /\ address_pool = SeededPool(NetManagerPool(engine_network = "gateway_reported"),
                                 attached)
    /\ containers = SeededBindings(attached)
    /\ network = Handle(attached)
    /\ reservations = EmptyDict
    /\ gateway = EngineGateway
    /\ last = Call("__init__", 0, "none", NoneV, NoneV, "none", "None", FALSE)
    /\ calls = 0
    /\ events = <<>>
    /\ listener = "idle"
    /\ frames = NoFrames
    /\ services = EmptyDict
    /\ used_ports = {}

\* network_connect(event), lines 81-90.
NetworkConnect(event) ==
    LET op  == "network_connect"
        cid == event.container
    IN  /\ Taken(event)
        /\ Dispatch(event) = "handler_network_connect"
        /\ \/ /\ ActorCheck(event) = "KeyError"
              /\ HandlerEnds(event, op, "none", "KeyError")
           \/ /\ ActorCheck(event) = "other_network"
              /\ HandlerEnds(event, op, "other_network", "None")
           \/ /\ ActorCheck(event) = "own"
              /\ cid \notin DOMAIN attached
              /\ \E raised \in InspectFailures :
                     HandlerEnds(event, op, "inspect", raised)
           \/ /\ ActorCheck(event) = "own"
              /\ cid \in DOMAIN attached
              /\ LET ipaddr == InspectedAddress(cid)
                 IN  /\ address_pool' = ContainerStartPool(address_pool, ipaddr)
                     /\ containers' = ContainerStartBindings(containers, cid,
                                                             ipaddr)
                     /\ LoopAfter("None")
                     /\ events' = StreamAfter("None", "none", cid, FALSE)
                     /\ last' = Call(op, cid, "container_start", ipaddr, NoneV,
                                     "none", "None", FALSE)
                     /\ UNCHANGED <<frames, reservations, services, used_ports, attached, gateway,
                                    network, engine_network>>

\* network_disconnect(event), lines 92-98.
NetworkDisconnect(event) ==
    LET op  == "network_disconnect"
        cid == event.container
    IN  /\ Taken(event)
        /\ Dispatch(event) = "handler_network_disconnect"
        /\ \/ /\ ActorCheck(event) = "KeyError"
              /\ HandlerEnds(event, op, "none", "KeyError")
           \/ /\ ActorCheck(event) = "other_network"
              /\ HandlerEnds(event, op, "other_network", "None")
           \/ /\ ActorCheck(event) = "own"
              /\ address_pool' = ContainerStopPool(address_pool, containers, cid)
              /\ containers' = ContainerStopBindings(containers, cid)
              /\ LoopAfter("None")
              /\ events' = StreamAfter("None", "none", cid, FALSE)
              /\ last' = Call(op, cid, "container_stop",
                              DictGet(containers, cid), NoneV, "none", "None",
                              FALSE)
              /\ UNCHANGED <<frames, reservations, services, used_ports, attached, gateway, network,
                             engine_network>>

\* listen(), lines 105-108: the loop takes the next event and handles it.
NetManagerStep ==
    \E event \in NextEvent :
        \/ ListenNoHandler(event)
        \/ NetworkConnect(event)
        \/ NetworkDisconnect(event)

\* The manager with its event loop: containers join and leave the network
\* on the engine, listen() is called and handles what the engine delivers
\* from then on.
NextNetManager ==
    \/ \E cid \in Cids, a \in Hosts : ExternalConnect(cid, a)
    \/ \E cid \in Cids : ExternalDisconnect(cid)
    \/ Listen
    \/ \E event \in OtherEvents : StreamEvent(event)
    \/ NetManagerStep

SpecNetManager == InitNetManager /\ [][NextNetManager]_vars

\* C31: in the NetworkManager, the free pool and the bound addresses
\* partition the host addresses other than the gateway: none is both free
\* and bound, and none is lost.
C31_PoolAndBoundPartition ==
    /\ address_pool \cap BoundAddresses = {}
    /\ address_pool \cup BoundAddresses = Hosts \ {gateway}

----------------------------------------------------------------------------
(* MyCloud (cloud.py): the registered services, the ports they take and    *)
(* the proxy configuration of each service.  The network, the containers   *)
(* and the registry are the environment of these calls: the registry       *)
(* answers a request with a truthy or a falsy body, or the request fails.  *)

\* None, among values that are texts.
PyNone == "None"

\* proxy_configs, lines 23-29.
proxy_configs ==
    [mode    |-> {"tcp", "http"},
     balance |-> {"roundrobin", "static-rr", "leastconn", "first", "source",
                  "uri", "url_param", "rdp-cookie"}]

\* The arguments of the calls: two service names, two ports, the two keys
\* of proxy_configs and one that is none, values of either enumeration,
\* one of neither and None, and the two actions and one that is none.
ServiceNames == {"web", "db"}

Ports == {80, 8080}

Keys == {"mode", "balance", "port"}

Values == {PyNone, "tcp", "roundrobin", "bogus"}

Actions == {"put", "delete", "patch"}

\* MyCloudService.__init__, lines 51-64: mode and balance start at None.
MyCloudService(name, port) ==
    [name |-> name, port |-> port, mode |-> PyNone, balance |-> PyNone]

\* How the construction of the service can end: start(init_scale) catches
\* what a container raises (lines 106-113), range(scale) of a scale that
\* is no integer raises outside of it.
ServiceOutcomes == {"ok", "TypeError"}

\* How the registry can answer: resp.json() truthy or falsy, or the lookup
\* of the registry's address or the request raises.
Responses == {"truthy", "falsy", "raised"}

\* The last call on the cloud and how it ended.
CloudCall(op, service, port, key, value, action, branch, request, returned, raised) ==
    [op |-> op, service |-> service, port |-> port, key |-> key,
     value |-> value, action |-> action, branch |-> branch,
     request |-> request, returned |-> returned, raised |-> raised]

\* The fields of the network controller, which these calls leave alone.
network_vars ==
    <<address_pool, containers, reservations, attached, gateway, calls,
      network, engine_network, events, listener, frames>>

\* MyCloud.__init__ with no initial service, lines 152-199: the network is
\* created and services and used_ports are empty.
InitCloud ==
    /\ address_pool = CreatePool(EmptyDict)
    /\ reservations = CreateReservations(EmptyDict)
    /\ engine_network = "no_gateway_reported"
    /\ containers = EmptyDict
    /\ attached = EmptyDict
    /\ gateway = EngineGateway
    /\ calls = 0
    /\ network = Handle(EmptyDict)
    /\ events = <<>>
    /\ listener = "idle"
    /\ frames = NoFrames
    /\ services = EmptyDict
    /\ used_ports = {}
    /\ last = CloudCall("__init__", PyNone, 0, PyNone, PyNone, PyNone, "none",
                        "none", PyNone, "None")

\* start_service(image, name, port, scale, command), lines 371-382.
StartService(name, port) ==
    /\ \E outcome \in ServiceOutcomes :
        LET branch == IF name \in DOMAIN services THEN "exists"
                      ELSE IF port \in used_ports THEN "port_used"
                      ELSE IF outcome = "ok" THEN "started"
                      ELSE "raised"
        IN  /\ services' = IF branch = "started"
                           THEN DictSet(services, name, MyCloudService(name, port))
                           ELSE services
            /\ used_ports' = IF branch = "started" THEN used_ports \cup {port}
                             ELSE used_ports
            /\ last' = CloudCall("start_service", name, port, PyNone, PyNone,
                                 PyNone, branch, "none", PyNone,
                                 IF branch = "raised" THEN outcome ELSE "None")
    /\ UNCHANGED network_vars

\* A stop that leaves the port of the stopped service taken.
StoppedPortsKept(port) == used_ports

\* Line 392: self.used_ports.remove(old_service.port).
StoppedPorts(port) == used_ports \ {port}

\* stop_service(name), lines 388-396.  set.remove raises KeyError for a
\* port that is not in the set.
StopService(name) ==
    /\ services' = DictPop(services, name)
    /\ IF name \in DOMAIN services
       THEN LET port == services[name].port
            IN  /\ used_ports' = StoppedPorts(port)
                /\ last' = CloudCall("stop_service", name, port, PyNone,
                                     PyNone, PyNone, "stopped", "none",
                                     IF port \in used_ports THEN "True"
                                     ELSE PyNone,
                                     IF port \in used_ports THEN "None"
                                     ELSE "KeyError")
       ELSE /\ used_ports' = used_ports
            /\ last' = CloudCall("stop_service", name, 0, PyNone, PyNone,
                                 PyNone, "unknown", "none", "False", "None")
    /\ UNCHANGED network_vars

\* A validation that lets every value through.
AnyValue(key, value) == TRUE

\* Line 334: value in proxy_configs[key], for a key of proxy_configs.
LegalValue(key, value) == value \in proxy_configs[key]

\* Lines 332-335: the service is unknown, the key is none of proxy_configs
\* or the value is none of the key's enumeration.
Rejected(service, key, value) ==
    \/ service \notin DOMAIN services
    \/ key \notin DOMAIN proxy_configs
    \/ ~LegalValue(key, value)

\* Lines 339-351: the request the call sends to the registry.
Request(value, action) ==
    IF action = "put" /\ value # PyNone THEN "put"
    ELSE IF action = "delete" THEN "delete"
    ELSE "none"

\* registry_update(service, key, value, action), lines 331-352.  The
\* registry's address is looked up (line 338) before the action is tested.
RegistryUpdate(service, key, value, action) ==
    /\ \E resp \in Responses :
        LET rejected == Rejected(service, key, value)
            request  == IF rejected THEN "none" ELSE Request(value, action)
            raised   == ~rejected /\ resp = "raised"
            done     == request # "none" /\ resp = "truthy"
            stored   == IF request = "put" THEN value ELSE PyNone
        IN  /\ services' = IF done
                           THEN [services EXCEPT ![service][key] = stored]
                           ELSE services
            /\ last' = CloudCall("registry_update", service, 0, key, value,
                                 action,
                                 IF rejected THEN "rejected" ELSE request,
                                 request,
                                 IF raised THEN PyNone
                                 ELSE IF done THEN "True" ELSE "False",
                                 IF raised THEN "Exception" ELSE "None")
    /\ UNCHANGED <<used_ports, network_vars>>

NextCloud ==
    \/ \E name \in ServiceNames, port \in Ports : StartService(name, port)
    \/ \E name \in ServiceNames : StopService(name)
    \/ \E service \in ServiceNames, key \in Keys, value \in Values,
          action \in Actions : RegistryUpdate(service, key, value, action)

SpecCloud == InitCloud /\ [][NextCloud]_vars

\* The ports of the registered services.
ServicePorts == {services[n].port : n \in DOMAIN services}

\* C32: used_ports is the set of the ports of the registered services and
\* no two registered services have the same port (a name registers one
\* service, services being a dict); a start_service with a name that is
\* registered or a port that is taken changes neither services nor
\* used_ports.
C32_PortsMatchServices ==
    [][/\ used_ports' = ServicePorts'
       /\ \A n1, n2 \in DOMAIN services' :
              n1 # n2 => services'[n1].port # services'[n2].port
       /\ \A n \in DOMAIN services' : services'[n].name = n
       /\ (/\ last'.op = "start_service"
           /\ \/ last'.service \in DOMAIN services
              \/ last'.port \in used_ports)
              => /\ services' = services
                 /\ used_ports' = used_ports]_vars

\* C32, witness: with a service registered, a start_service under another
\* name with the port the registered one has was turned down.
C32_Witness ==
    /\ last.op = "start_service"
    /\ last.service \notin DOMAIN services
    /\ last.port \in used_ports
    /\ services # EmptyDict

\* The configuration fields of every service hold None or a value of the
\* field's enumeration.
LegalFields ==
    \A n \in DOMAIN services :
        /\ services[n].mode \in proxy_configs.mode \cup {PyNone}
        /\ services[n].balance \in proxy_configs.balance \cup {PyNone}

\* C33: after every call the mode of each service is None or one of
\* proxy_configs['mode'] and its balance None or one of
\* proxy_configs['balance']; a registry_update for a service that is not
\* registered, with a key that is none of proxy_configs or with a value
\* that is none of the key's enumeration returns False and changes no
\* service.
C33_OnlyLegalValues ==
    [][/\ LegalFields'
       /\ (/\ last'.op = "registry_update"
           /\ \/ last'.service \notin DOMAIN services
              \/ last'.key \notin DOMAIN proxy_configs
              \/ last'.value \notin proxy_configs[last'.key])
              => /\ last'.returned = "False"
                 /\ last'.raised = "None"
                 /\ last'.request = "none"
                 /\ services' = services]_vars

\* C33, witness: a service holds a value that a registry_update stored,
\* and the last registry_update, for that service and a key of
\* proxy_configs, carried a value that is none of the key's enumeration.
C33_Witness ==
    /\ last.op = "registry_update"
    /\ last.service \in DOMAIN services
    /\ last.key \in DOMAIN proxy_configs
    /\ last.value \notin proxy_configs[last.key]
    /\ last.value # PyNone
    /\ services[last.service].mode = "tcp"

\* C34: a registry_update with action 'delete' and the default value None,
\* for a registered service and a key of proxy_configs, sends the delete
\* to the registry and, when the registry confirms it, sets the service's
\* attribute for the key to None and returns True.
C34_DeleteResetsAttribute ==
    [][(/\ last'.op = "registry_update"
        /\ last'.action = "delete"
        /\ last'.value = PyNone
        /\ last'.service \in DOMAIN services
        /\ last'.key \in DOMAIN proxy_configs
        /\ last'.raised = "None")
           => /\ last'.request = "delete"
              /\ last'.returned = "True"
                     => services'[last'.service][last'.key] = PyNone
              /\ last'.returned \in {"True", "False"}
              /\ last'.branch # "rejected"]_vars

====
